---- MODULE Spec2Model ----
(***************************************************************************)
(* Model of hubblestack_nova/pkg.py: the Nova package audit.               *)
(*                                                                         *)
(* Python values are encoded as follows.                                   *)
(*   - A string that the code inspects character by character (a tag, the  *)
(*     tag filter, a version, a version constraint) is a sequence of       *)
(*     one-character strings.  Other strings (package names, audit ids,    *)
(*     descriptions, control reasons, categories) are TLA+ strings.        *)
(*   - A dict is a function whose domain is the set of its keys.           *)
(*   - A single-entry dict {k: v} that the code only ever unpacks with     *)
(*     iteritems() is the record [key |-> k, val |-> v].                   *)
(*   - A value whose Python type the code tests with isinstance is the     *)
(*     record [kind |-> "str", str |-> s], [kind |-> "dict", dict |-> d]   *)
(*     or [kind |-> "list", list |-> l].                                   *)
(*   - None is the string NoneVal.                                         *)
(* The code is Python 2 (iteritems, distutils.version.LooseVersion with    *)
(* __cmp__).                                                                *)
(***************************************************************************)
EXTENDS Integers, Sequences, FiniteSets, TLC

VARIABLES
    data_list,   \* audit(): the policy documents passed in
    tags,        \* audit(): the tag filter (a glob pattern)
    verbose,     \* audit(): the verbose flag
    osfinger,    \* __grains__['osfinger']
    installed,   \* what __salt__['pkg.version'] answers: name -> version, "" if absent
    __data__,    \* audit(): the merged yaml
    di,          \* audit(): number of documents merged so far
    toporder,    \* _get_tags(): iteration order of data['pkg'].iteritems()
    work,        \* _get_tags(): the audit_dicts still to resolve, in order
    __tags__,    \* audit(): tag -> list of tag_data
    todo,        \* audit(): the tags `for tag in __tags__` has not yet reached
    cur,         \* audit(): the tag of the current iteration, as <<tag>>, or <<>>
    ri,          \* audit(): number of rules of cur already evaluated
    ret,         \* audit(): the buckets, then the report
    queries,     \* the calls made to __salt__['pkg.version']: <<tag, index, name>>
    raw,         \* the buckets as they were when the evaluation loop ended
    pc           \* position in audit()

vars == <<data_list, tags, verbose, osfinger, installed, __data__, di, toporder,
          work, __tags__, todo, cur, ri, ret, queries, raw, pc>>

NoneVal == "None"

-----------------------------------------------------------------------------
(* Generic dict and sequence helpers.                                       *)

\* d.update(e): the keys of e override those of d.
Update(d, e) == [k \in DOMAIN d \cup DOMAIN e |-> IF k \in DOMAIN e THEN e[k] ELSE d[k]]

\* d.pop(key) for a key that is present (the result of pop is not used here).
Pop(d, key) == [k \in DOMAIN d \ {key} |-> d[k]]

\* d.get(key, default)
Get(d, key, default) == IF key \in DOMAIN d THEN d[key] ELSE default

\* The orders in which iteritems() may enumerate a dict with key set S: the
\* order of a Python 2 dict is fixed by the build, not by the program.
Orders(S) == {o \in [1..Cardinality(S) -> S] : \A i, j \in DOMAIN o : i # j => o[i] # o[j]}

-----------------------------------------------------------------------------
(* Characters.                                                              *)

\* The strings of the model are made of the characters Ord is defined on;
\* of the lower-case letters [a-z] these are a, b and c.
Digits == {"0", "1", "2", "3", "4", "5", "6", "7", "8", "9"}
Lower == {"a", "b", "c"}

\* ord() of the characters the model's strings are made of.
Ord(c) ==
    CASE c = "*" -> 42
      [] c = "-" -> 45
      [] c = "." -> 46
      [] c = "0" -> 48
      [] c = "1" -> 49
      [] c = "2" -> 50
      [] c = "3" -> 51
      [] c = "4" -> 52
      [] c = "5" -> 53
      [] c = "6" -> 54
      [] c = "7" -> 55
      [] c = "8" -> 56
      [] c = "9" -> 57
      [] c = "<" -> 60
      [] c = "=" -> 61
      [] c = ">" -> 62
      [] c = "?" -> 63
      [] c = "a" -> 97
      [] c = "b" -> 98
      [] c = "c" -> 99
      [] c = "~" -> 126

DigitVal(c) == Ord(c) - 48

-----------------------------------------------------------------------------
(* fnmatch.fnmatch(name, pat) on POSIX (normcase is the identity): `*`      *)
(* matches any run of characters, `?` any one character, any other         *)
(* character itself.  The patterns of the model contain no `[`.             *)

RECURSIVE fnmatch(_, _)
fnmatch(name, pat) ==
    IF pat = <<>> THEN name = <<>>
    ELSE IF Head(pat) = "*"
         THEN fnmatch(name, Tail(pat)) \/ (name # <<>> /\ fnmatch(Tail(name), pat))
    ELSE IF Head(pat) = "?"
         THEN name # <<>> /\ fnmatch(Tail(name), Tail(pat))
    ELSE name # <<>> /\ Head(name) = Head(pat) /\ fnmatch(Tail(name), Tail(pat))

-----------------------------------------------------------------------------
(* str.partition('='): <<before, sep, after>>, split at the first '='.      *)

RECURSIVE IndexOfEq(_, _)
IndexOfEq(s, i) ==
    IF i > Len(s) THEN 0
    ELSE IF s[i] = "=" THEN i
    ELSE IndexOfEq(s, i + 1)

partition(s) ==
    LET i == IndexOfEq(s, 1)
    IN  IF i = 0 THEN <<s, <<>>, <<>>>>
        ELSE <<SubSeq(s, 1, i - 1), <<"=">>, SubSeq(s, i + 1, Len(s))>>

-----------------------------------------------------------------------------
(* distutils.version.LooseVersion (Python 2).                               *)
(* parse(): component_re = (\d+ | [a-z]+ | \.) splits the string into runs  *)
(* of digits, runs of lower-case letters, dots, and the text in between;    *)
(* empty strings and dots are dropped and digit runs become ints.           *)
(* A component is [int |-> TRUE, n |-> number] or [int |-> FALSE, s |-> str].*)

CharClass(c) ==
    IF c \in Digits THEN "digit"
    ELSE IF c \in Lower THEN "lower"
    ELSE IF c = "." THEN "dot"
    ELSE "other"

\* Length of the maximal run of characters of class cl starting at s[i].
RECURSIVE RunLen(_, _, _)
RunLen(s, i, cl) ==
    IF i > Len(s) \/ CharClass(s[i]) # cl THEN 0
    ELSE 1 + RunLen(s, i + 1, cl)

\* int() of a run of digits.
RECURSIVE ToInt(_)
ToInt(ds) ==
    IF ds = <<>> THEN 0
    ELSE 10 * ToInt(SubSeq(ds, 1, Len(ds) - 1)) + DigitVal(ds[Len(ds)])

RECURSIVE Components(_)
Components(s) ==
    IF s = <<>> THEN <<>>
    ELSE LET cl == CharClass(s[1])
             n == RunLen(s, 1, cl)
             run == SubSeq(s, 1, n)
             rest == Components(SubSeq(s, n + 1, Len(s)))
         IN  IF cl = "dot" THEN rest
             ELSE IF cl = "digit" THEN <<[int |-> TRUE, n |-> ToInt(run)]>> \o rest
             ELSE <<[int |-> FALSE, s |-> run]>> \o rest

\* cmp() of two Python 2 strings: -1, 0 or 1.
RECURSIVE CmpStr(_, _)
CmpStr(a, b) ==
    IF a = <<>> /\ b = <<>> THEN 0
    ELSE IF a = <<>> THEN -1
    ELSE IF b = <<>> THEN 1
    ELSE IF Ord(Head(a)) < Ord(Head(b)) THEN -1
    ELSE IF Ord(Head(a)) > Ord(Head(b)) THEN 1
    ELSE CmpStr(Tail(a), Tail(b))

\* cmp() of two components: ints numerically, strings lexically, and in
\* CPython 2 an int is smaller than any str.
CmpComponent(x, y) ==
    IF x.int /\ y.int
    THEN (IF x.n < y.n THEN -1 ELSE IF x.n > y.n THEN 1 ELSE 0)
    ELSE IF x.int THEN -1
    ELSE IF y.int THEN 1
    ELSE CmpStr(x.s, y.s)

\* Mutant of CmpList: a list that is a prefix of the other compares equal to
\* it, as if the missing components did not count.
RECURSIVE CmpListPrefixEqual(_, _)
CmpListPrefixEqual(a, b) ==
    IF a = <<>> \/ b = <<>> THEN 0
    ELSE LET c == CmpComponent(Head(a), Head(b))
         IN  IF c # 0 THEN c ELSE CmpListPrefixEqual(Tail(a), Tail(b))

\* cmp() of two Python lists: the first differing element decides; if one
\* list is a prefix of the other, the shorter list is the smaller.
RECURSIVE CmpList(_, _)
CmpList(a, b) ==
    IF a = <<>> /\ b = <<>> THEN 0
    ELSE IF a = <<>> THEN -1
    ELSE IF b = <<>> THEN 1
    ELSE LET c == CmpComponent(Head(a), Head(b))
         IN  IF c # 0 THEN c ELSE CmpList(Tail(a), Tail(b))

\* LooseVersion(vstring): __init__ parses only `if vstring:`; for an empty
\* string the object has no `version` attribute.
LooseVersion(vstring) ==
    IF vstring = <<>> THEN [parsed |-> FALSE, version |-> <<>>]
    ELSE [parsed |-> TRUE, version |-> Components(vstring)]

\* LooseVersion.__cmp__: cmp(self.version, other.version); reading the
\* attribute of an unparsed object raises AttributeError.
LooseCmp(a, b) ==
    IF a.parsed /\ b.parsed
    THEN [raises |-> FALSE, c |-> CmpList(a.version, b.version)]
    ELSE [raises |-> TRUE, c |-> 0]

-----------------------------------------------------------------------------
(* _merge_yaml(ret, data): append every {audit_id: audit_data} of the       *)
(* document's pkg:blacklist and pkg:whitelist to the lists of ret['pkg'].   *)
(* ob and ow are the orders in which iteritems() enumerates the audit ids.  *)

EmptyDict == <<>>

MergeTop(retpkg, datapkg, topkey, order) ==
    IF topkey \in DOMAIN datapkg
    THEN LET old == Get(retpkg, topkey, <<>>)
             new == [i \in 1..Len(order) |->
                        [key |-> order[i], val |-> datapkg[topkey][order[i]]]]
         IN  Update(retpkg, [k \in {topkey} |-> old \o new])
    ELSE retpkg

_merge_yaml(r, data, ob, ow) ==
    LET retpkg == Get(r, "pkg", EmptyDict)
        datapkg == Get(data, "pkg", EmptyDict)
        afterB == MergeTop(retpkg, datapkg, "blacklist", ob)
        afterW == MergeTop(afterB, datapkg, "whitelist", ow)
    IN  Update(r, [k \in {"pkg"} |-> afterW])

\* The audit ids of data['pkg'][topkey], if that key exists.
AuditIds(data, topkey) ==
    LET datapkg == Get(data, "pkg", EmptyDict)
    IN  IF topkey \in DOMAIN datapkg THEN DOMAIN datapkg[topkey] ELSE {}

-----------------------------------------------------------------------------
(* _get_tags(data), the body of the loop over the audit dicts.              *)

EmptyBucket == [kind |-> "list", list |-> <<>>]

\* Mutant of SelectBucket: the wildcard bucket is preferred to the host's.
SelectBucketWildcardFirst(tags_dict, distro) ==
    Get(tags_dict, "*", Get(tags_dict, distro, EmptyBucket))

\* tags_dict.get(distro, tags_dict.get('*', []))
SelectBucket(tags_dict, distro) == Get(tags_dict, distro, Get(tags_dict, "*", EmptyBucket))

\* Mutant of FormatItem: the audit-level metadata is applied before the
\* per-item fields, so that the per-item fields win.
FormatItemItemWins(item, toplist, audit_data) ==
    LET name == item.key
        isdict == item.val.kind = "dict"
        tag_data == IF isdict THEN Pop(item.val.dict, "tag") ELSE EmptyDict
        tag == IF isdict THEN item.val.dict["tag"] ELSE item.val.str
        base == [k \in {"name", "tag", "module", "type"} |->
                    CASE k = "name" -> name
                      [] k = "tag" -> tag
                      [] k = "module" -> "pkg"
                      [] k = "type" -> toplist]
    IN  Update(Update(Pop(audit_data, "data"), base), tag_data)

\* Lines 245-260 for one item {name: tag} of the bucket.
FormatItem(item, toplist, audit_data) ==
    LET name == item.key
        isdict == item.val.kind = "dict"
        tag_data == IF isdict THEN Pop(item.val.dict, "tag") ELSE EmptyDict
        tag == IF isdict THEN item.val.dict["tag"] ELSE item.val.str
        base == [k \in {"name", "tag", "module", "type"} |->
                    CASE k = "name" -> name
                      [] k = "tag" -> tag
                      [] k = "module" -> "pkg"
                      [] k = "type" -> toplist]
    IN  Pop(Update(Update(base, tag_data), audit_data), "data")

\* The key of ret under which the item's rule is stored (line 250-252).
ItemTag(item) == IF item.val.kind = "dict" THEN item.val.dict["tag"] ELSE item.val.str

RECURSIVE AddItems(_, _, _, _)
AddItems(r, items, toplist, audit_data) ==
    IF items = <<>> THEN r
    ELSE LET tag == ItemTag(Head(items))
             old == Get(r, tag, <<>>)
             formatted_data == FormatItem(Head(items), toplist, audit_data)
             r1 == Update(r, [k \in {tag} |-> Append(old, formatted_data)])
         IN  AddItems(r1, Tail(items), toplist, audit_data)

\* Lines 238-243: a bucket that is a dict becomes a list of single-entry
\* dicts, in the order iteritems() yields (order); a list stays as it is.
BucketItems(bucket, order) ==
    IF bucket.kind = "dict"
    THEN [i \in 1..Len(order) |-> [key |-> order[i], val |-> bucket.dict[order[i]]]]
    ELSE bucket.list

BucketKeys(bucket) == IF bucket.kind = "dict" THEN DOMAIN bucket.dict ELSE {}

\* The flattened iteration of lines 228-232 under a given order of the keys
\* of data['pkg']: the pairs (toplist, audit_dict).
RECURSIVE WorkList(_, _)
WorkList(pkg, order) ==
    IF order = <<>> THEN <<>>
    ELSE [i \in 1..Len(pkg[Head(order)]) |->
             [toplist |-> Head(order), audit_dict |-> pkg[Head(order)][i]]]
         \o WorkList(pkg, Tail(order))

-----------------------------------------------------------------------------
(* audit(): the classification of one tag_data (lines 105-160).            *)
(* The result names the bucket the rule is appended to ("none" when no     *)
(* branch applies, "raise" when the comparison raises), the entry appended *)
(* and whether __salt__['pkg.version'] was called.                         *)

ErrorText(mod) == <<"Invalid modifier ">> \o mod

Outcome(bucket, entry, called) == [bucket |-> bucket, entry |-> entry, called |-> called]

\* Mutant of VersionCheck: a modifier other than < and > is ignored and the
\* version is compared for equality.
VersionCheckNoInvalid(tag_data, inst) ==
    LET p == partition(tag_data["version"])
        noversion == p[3] = <<>>
        version == IF noversion THEN p[1] ELSE p[3]
        mod == IF noversion THEN <<>> ELSE p[1]
        cmp == LooseCmp(LooseVersion(inst), LooseVersion(version))
    IN  IF mod = <<"<">>
        THEN IF cmp.raises THEN Outcome("raise", tag_data, TRUE)
             ELSE IF cmp.c <= 0 THEN Outcome("Success", tag_data, TRUE)
             ELSE Outcome("Failure", tag_data, TRUE)
        ELSE IF mod = <<">">>
        THEN IF cmp.raises THEN Outcome("raise", tag_data, TRUE)
             ELSE IF cmp.c >= 0 THEN Outcome("Success", tag_data, TRUE)
             ELSE Outcome("Failure", tag_data, TRUE)
        ELSE IF inst = version THEN Outcome("Success", tag_data, TRUE)
             ELSE Outcome("Failure", tag_data, TRUE)

\* Lines 120-154: the rule has a version constraint; inst is what
\* __salt__['pkg.version'](name) answers.
VersionCheck(tag_data, inst) ==
    LET p == partition(tag_data["version"])
        noversion == p[3] = <<>>
        version == IF noversion THEN p[1] ELSE p[3]
        mod == IF noversion THEN <<>> ELSE p[1]
        cmp == LooseCmp(LooseVersion(inst), LooseVersion(version))
    IN  IF mod = <<"<">>
        THEN IF cmp.raises THEN Outcome("raise", tag_data, TRUE)
             ELSE IF cmp.c <= 0 THEN Outcome("Success", tag_data, TRUE)
             ELSE Outcome("Failure", tag_data, TRUE)
        ELSE IF mod = <<">">>
        THEN IF cmp.raises THEN Outcome("raise", tag_data, TRUE)
             ELSE IF cmp.c >= 0 THEN Outcome("Success", tag_data, TRUE)
             ELSE Outcome("Failure", tag_data, TRUE)
        ELSE IF mod = <<>>
        THEN IF inst = version THEN Outcome("Success", tag_data, TRUE)
             ELSE Outcome("Failure", tag_data, TRUE)
        ELSE Outcome("Failure", Update(tag_data, [error |-> ErrorText(mod)]), FALSE)

\* Mutant of Evaluate: the control field is not looked at.
EvaluateIgnoringControl(tag_data, pkgversion) ==
    LET name == tag_data["name"]
        audittype == tag_data["type"]
    IN  IF audittype = "blacklist"
        THEN IF pkgversion[name] # <<>> THEN Outcome("Failure", tag_data, TRUE)
             ELSE Outcome("Success", tag_data, TRUE)
        ELSE IF audittype = "whitelist"
        THEN IF "version" \in DOMAIN tag_data
             THEN VersionCheck(tag_data, pkgversion[name])
             ELSE IF pkgversion[name] # <<>> THEN Outcome("Success", tag_data, TRUE)
             ELSE Outcome("Failure", tag_data, TRUE)
        ELSE Outcome("none", tag_data, FALSE)

\* Mutant of Evaluate: a blacklisted package that is installed passes.
EvaluateBlacklistInverted(tag_data, pkgversion) ==
    IF "control" \in DOMAIN tag_data THEN Outcome("Controlled", tag_data, FALSE)
    ELSE LET name == tag_data["name"]
             audittype == tag_data["type"]
         IN  IF audittype = "blacklist"
             THEN IF pkgversion[name] # <<>> THEN Outcome("Success", tag_data, TRUE)
                  ELSE Outcome("Failure", tag_data, TRUE)
             ELSE IF audittype = "whitelist"
             THEN IF "version" \in DOMAIN tag_data
                  THEN VersionCheck(tag_data, pkgversion[name])
                  ELSE IF pkgversion[name] # <<>> THEN Outcome("Success", tag_data, TRUE)
                  ELSE Outcome("Failure", tag_data, TRUE)
             ELSE Outcome("none", tag_data, FALSE)

\* Lines 105-160.
Evaluate(tag_data, pkgversion) ==
    IF "control" \in DOMAIN tag_data THEN Outcome("Controlled", tag_data, FALSE)
    ELSE LET name == tag_data["name"]
             audittype == tag_data["type"]
         IN  IF audittype = "blacklist"
             THEN IF pkgversion[name] # <<>> THEN Outcome("Failure", tag_data, TRUE)
                  ELSE Outcome("Success", tag_data, TRUE)
             ELSE IF audittype = "whitelist"
             THEN IF "version" \in DOMAIN tag_data
                  THEN VersionCheck(tag_data, pkgversion[name])
                  ELSE IF pkgversion[name] # <<>> THEN Outcome("Success", tag_data, TRUE)
                  ELSE Outcome("Failure", tag_data, TRUE)
             ELSE Outcome("none", tag_data, FALSE)

-----------------------------------------------------------------------------
(* audit(): the non-verbose aggregation (lines 162-199).                   *)

Description(tag_data) == Get(tag_data, "description", NoneVal)

\* Mutant of Collapse: every entry is emitted, seen before or not.
RECURSIVE CollapseNoDedup(_, _)
CollapseNoDedup(bucket, tags_descriptions) ==
    IF bucket = <<>> THEN <<>>
    ELSE <<[key |-> Head(bucket)["tag"], val |-> Description(Head(bucket))]>>
         \o CollapseNoDedup(Tail(bucket), tags_descriptions)

\* Lines 167-183: one of the two loops over ret['Failure'] and ret['Success'].
RECURSIVE Collapse(_, _)
Collapse(bucket, tags_descriptions) ==
    IF bucket = <<>> THEN <<>>
    ELSE LET tag == Head(bucket)["tag"]
             description == Description(Head(bucket))
         IN  IF <<tag, description>> \notin tags_descriptions
             THEN <<[key |-> tag, val |-> description]>>
                  \o Collapse(Tail(bucket), tags_descriptions \cup {<<tag, description>>})
             ELSE Collapse(Tail(bucket), tags_descriptions)

\* Lines 185-195: the loop over ret['Controlled'].
RECURSIVE CollapseControlled(_, _)
CollapseControlled(bucket, control_reasons) ==
    IF bucket = <<>> THEN <<>>
    ELSE LET tag == Head(bucket)["tag"]
             control_reason == Get(Head(bucket), "control", "")
             description == Description(Head(bucket))
             tag_dict == [description |-> description, control |-> control_reason]
         IN  IF <<tag, description, control_reason>> \notin control_reasons
             THEN <<[key |-> tag, val |-> tag_dict]>>
                  \o CollapseControlled(Tail(bucket),
                        control_reasons \cup {<<tag, description, control_reason>>})
             ELSE CollapseControlled(Tail(bucket), control_reasons)

EmptyRet == [Success |-> <<>>, Failure |-> <<>>, Controlled |-> <<>>]

\* Mutant of Report: an empty Controlled is not dropped.
ReportKeepingControlled(r, verb) ==
    IF verb THEN r
    ELSE [Success |-> Collapse(r["Success"], {}),
          Failure |-> Collapse(r["Failure"], {}),
          Controlled |-> CollapseControlled(r["Controlled"], {})]

\* Lines 162-204: aggregate unless verbose, then drop an empty Controlled.
Report(r, verb) ==
    LET agg == IF verb THEN r
               ELSE [Success |-> Collapse(r["Success"], {}),
                     Failure |-> Collapse(r["Failure"], {}),
                     Controlled |-> CollapseControlled(r["Controlled"], {})]
    IN  IF agg["Controlled"] = <<>> THEN Pop(agg, "Controlled") ELSE agg

-----------------------------------------------------------------------------
(* The steps of audit(data_list, tags, verbose).                            *)

\* Lines 91-93, one iteration: _merge_yaml(__data__, data).
MergeYaml ==
    /\ pc = "merge"
    /\ di < Len(data_list)
    /\ \E ob \in Orders(AuditIds(data_list[di + 1], "blacklist")),
          ow \in Orders(AuditIds(data_list[di + 1], "whitelist")) :
            __data__' = _merge_yaml(__data__, data_list[di + 1], ob, ow)
    /\ di' = di + 1
    /\ UNCHANGED <<data_list, tags, verbose, osfinger, installed, toporder, work,
                   __tags__, todo, cur, ri, ret, queries, raw, pc>>

\* Line 94 and lines 226-228: enter _get_tags; iteritems() fixes the order of
\* the keys of data['pkg'].
GetTagsStart ==
    /\ pc = "merge"
    /\ di = Len(data_list)
    /\ \E order \in Orders(DOMAIN Get(__data__, "pkg", EmptyDict)) :
          /\ toporder' = order
          /\ work' = WorkList(Get(__data__, "pkg", EmptyDict), order)
    /\ __tags__' = EmptyDict
    /\ pc' = "get_tags"
    /\ UNCHANGED <<data_list, tags, verbose, osfinger, installed, __data__, di,
                   todo, cur, ri, ret, queries, raw>>

\* Lines 232-260 for one audit_dict {audit_id: audit_data}.
GetTagsStep ==
    /\ pc = "get_tags"
    /\ work # <<>>
    /\ LET toplist == Head(work).toplist
           audit_data == Head(work).audit_dict.val
           tags_dict == Get(audit_data, "data", EmptyDict)
           bucket == SelectBucket(tags_dict, osfinger)
       IN  \E order \in Orders(BucketKeys(bucket)) :
              __tags__' = AddItems(__tags__, BucketItems(bucket, order), toplist, audit_data)
    /\ work' = Tail(work)
    /\ UNCHANGED <<data_list, tags, verbose, osfinger, installed, __data__, di,
                   toporder, todo, cur, ri, ret, queries, raw, pc>>

\* Lines 261, 101-102: _get_tags returns, the buckets are created and the
\* loop over the tags starts.
AuditStart ==
    /\ pc = "get_tags"
    /\ work = <<>>
    /\ ret' = EmptyRet
    /\ todo' = DOMAIN __tags__
    /\ cur' = <<>>
    /\ ri' = 0
    /\ pc' = "audit"
    /\ UNCHANGED <<data_list, tags, verbose, osfinger, installed, __data__, di,
                   toporder, work, __tags__, queries, raw>>

\* Lines 102-103: the next tag of `for tag in __tags__` (a dict: any order),
\* entered only if it matches the filter.
NextTag ==
    /\ pc = "audit"
    /\ cur = <<>>
    /\ \E tag \in todo :
          /\ todo' = todo \ {tag}
          /\ cur' = IF fnmatch(tag, tags) THEN <<tag>> ELSE <<>>
    /\ ri' = 0
    /\ UNCHANGED <<data_list, tags, verbose, osfinger, installed, __data__, di,
                   toporder, work, __tags__, ret, queries, raw, pc>>

\* Lines 104-160 for one tag_data of the current tag.  An exception raised
\* by the version comparison leaves audit(): no report is returned.
EvalRule ==
    /\ pc = "audit"
    /\ cur # <<>>
    /\ LET tag == cur[1]
           tag_data == __tags__[tag][ri + 1]
           out == Evaluate(tag_data, installed)
       IN  /\ queries' = IF out.called
                         THEN queries \cup {<<tag, ri + 1, tag_data["name"]>>}
                         ELSE queries
           /\ ret' = IF out.bucket \in {"Success", "Failure", "Controlled"}
                     THEN [ret EXCEPT ![out.bucket] = Append(@, out.entry)]
                     ELSE ret
           /\ pc' = IF out.bucket = "raise" THEN "aborted" ELSE pc
           /\ ri' = ri + 1
           /\ cur' = IF out.bucket # "raise" /\ ri + 1 = Len(__tags__[tag]) THEN <<>> ELSE cur
    /\ UNCHANGED <<data_list, tags, verbose, osfinger, installed, __data__, di,
                   toporder, work, __tags__, todo, raw>>

\* Lines 162-204: the loops are over; aggregate and return the report.
Aggregate ==
    /\ pc = "audit"
    /\ cur = <<>>
    /\ todo = {}
    /\ raw' = ret
    /\ ret' = Report(ret, verbose)
    /\ pc' = "done"
    /\ UNCHANGED <<data_list, tags, verbose, osfinger, installed, __data__, di,
                   toporder, work, __tags__, todo, cur, ri, queries>>

Next ==
    \/ MergeYaml
    \/ GetTagsStart
    \/ GetTagsStep
    \/ AuditStart
    \/ NextTag
    \/ EvalRule
    \/ Aggregate

\* The state on entry to audit() for given arguments and environment.
Start(docs, filter, verb, distro, pkgversion) ==
    /\ data_list = docs
    /\ tags = filter
    /\ verbose = verb
    /\ osfinger = distro
    /\ installed = pkgversion
    /\ __data__ = EmptyDict
    /\ di = 0
    /\ toporder = <<>>
    /\ work = <<>>
    /\ __tags__ = EmptyDict
    /\ todo = {}
    /\ cur = <<>>
    /\ ri = 0
    /\ ret = EmptyRet
    /\ queries = {}
    /\ raw = EmptyRet
    /\ pc = "merge"

-----------------------------------------------------------------------------
(* Inputs.                                                                  *)

Str(s) == [kind |-> "str", str |-> s]
Dict(d) == [kind |-> "dict", dict |-> d]
List(l) == [kind |-> "list", list |-> l]

\* A policy document with one audit id under one category.
Doc(cat, id, audit_data) == [pkg |-> [c \in {cat} |-> [i \in {id} |-> audit_data]]]

\* The sequences of 1..n elements of D.
DocLists(D, n) == UNION {[1..k -> D] : k \in 1..n}

Names == {"p", "q"}
Categories == {"blacklist", "whitelist"}
TagA == <<"a">>
TagB == <<"a", "b">>

\* The strings of length lo..hi over the characters of C.
Strings(C, lo, hi) == UNION {[1..n -> C] : n \in lo..hi}

-----------------------------------------------------------------------------
\* Specification Spec: whole runs of audit() over one or two documents, each
\* with one audit of one rule; the rules differ in category, in carrying a
\* control (per item or per audit) and in carrying a version constraint.
MaxDocs == 2

AuditItems ==
    { [key |-> "p", val |-> Str(TagA)],
      [key |-> "p", val |-> Dict([tag |-> TagA, control |-> "c"])],
      [key |-> "q", val |-> Str(TagB)],
      [key |-> "q", val |-> Dict([tag |-> TagB, version |-> <<">", "=", "1">>])] }

ControlledItems ==
    { [key |-> "p", val |-> Str(TagA)],
      [key |-> "q", val |-> Dict([tag |-> TagB, version |-> <<">", "=", "1">>])] }

AuditDocs ==
    { Doc(cat, "a1", [data |-> [h \in {"*"} |-> List(<<item>>)]]) :
        cat \in Categories, item \in AuditItems }
    \cup
    { Doc(cat, "a2", [control |-> "k", data |-> [h \in {"*"} |-> List(<<item>>)]]) :
        cat \in Categories, item \in ControlledItems }

Filters == { <<"*">>, <<"a">>, <<"?", "b">>, <<"b", "*">> }

Inventories == [Names -> {<<>>, <<"1">>}]

Init ==
    \E docs \in DocLists(AuditDocs, MaxDocs), filter \in Filters,
       verb \in BOOLEAN, pkgversion \in Inventories :
        Start(docs, filter, verb, "H", pkgversion)

Spec == Init /\ [][Next]_vars

-----------------------------------------------------------------------------
\* Specification SpecAgg: non-verbose runs over up to three whitelist rules
\* that share or differ in tag, description and control reason.  Package p
\* is installed and q is not, so the name decides between Success and
\* Failure.
MaxAggDocs == 3

AggDocs ==
    { Doc("whitelist", "a1", Update(meta, [data |-> [h \in {"*"} |-> List(<<item>>)]])) :
        meta \in {EmptyDict, [description |-> "d"]},
        item \in {[key |-> n, val |-> Str(t)] : n \in Names, t \in {TagA, TagB}} }
    \cup
    { Doc("whitelist", "a2", Update(meta, [data |-> [h \in {"*"} |-> List(<<item>>)]])) :
        meta \in {[control |-> "k"], [control |-> "c"]},
        item \in {[key |-> "p", val |-> Str(t)] : t \in {TagA, TagB}} }

AggInventory == [n \in Names |-> IF n = "p" THEN <<"1">> ELSE <<>>]

InitAgg ==
    \E docs \in DocLists(AggDocs, MaxAggDocs) :
        Start(docs, <<"*">>, FALSE, "H", AggInventory)

SpecAgg == InitAgg /\ [][Next]_vars

-----------------------------------------------------------------------------
\* Specification SpecTags: _get_tags on one document.
\*  - InitBucket: one audit whose data has a bucket for the host "H", for
\*    "*", for both or for neither (or no data at all); a bucket is a list of
\*    up to MaxBucket items or a dict; the host is "H" or "G".
\*  - InitOverlay: one audit with one item; the per-item mapping and the
\*    audit-level metadata each carry any subset of their optional keys.
\*  - InitMerge: one document with two audits under blacklist and one under
\*    whitelist.
MaxBucket == 2

BucketTagSpecs == { Str(TagA), Dict([tag |-> TagB]) }

BucketItemSet == { [key |-> n, val |-> ts] : n \in Names, ts \in BucketTagSpecs }

Buckets ==
    { List(l) : l \in Strings(BucketItemSet, 0, MaxBucket) }
    \cup
    { Dict(d) : d \in UNION {[S -> BucketTagSpecs] : S \in SUBSET Names \ {{}}} }

DataDicts == UNION {[S -> Buckets] : S \in SUBSET {"H", "*"}}

InitBucket ==
    \E cat \in Categories, distro \in {"H", "G"}, d \in DataDicts, hasdata \in BOOLEAN :
        /\ hasdata \/ d = EmptyDict
        /\ Start(<<Doc(cat, "a1",
                       IF hasdata THEN [description |-> "d", data |-> d]
                       ELSE [description |-> "d"])>>,
                 <<"*">>, TRUE, distro, AggInventory)

ItemFields == [version |-> <<"1">>, control |-> "c", description |-> "d"]
MetaFields == [version |-> <<"9">>, control |-> "k", description |-> "D", module |-> "m"]

\* The restriction of the dict d to the keys in S.
Restrict(d, S) == [k \in S |-> d[k]]

OverlayTagSpecs ==
    { Str(TagA) }
    \cup { Dict(Update([tag |-> TagA], Restrict(ItemFields, S))) : S \in SUBSET DOMAIN ItemFields }

InitOverlay ==
    \E cat \in Categories, n \in Names, ts \in OverlayTagSpecs,
       S \in SUBSET DOMAIN MetaFields :
        Start(<<Doc(cat, "a1",
                    Update(Restrict(MetaFields, S),
                           [data |-> [h \in {"*"} |-> List(<<[key |-> n, val |-> ts]>>)]]))>>,
              <<"*">>, TRUE, "H", AggInventory)

MergeAudits ==
    { [data |-> [h \in {"*"} |-> List(<<[key |-> n, val |-> Str(TagA)]>>)]] : n \in Names }
    \cup { [data |-> [h \in {"H"} |-> List(<<[key |-> "p", val |-> Str(TagB)]>>)]] }

InitMerge ==
    \E b1 \in MergeAudits, b2 \in MergeAudits, w1 \in MergeAudits, distro \in {"H", "G"} :
        Start(<<[pkg |-> [blacklist |-> [a1 |-> b1, a2 |-> b2], whitelist |-> [a1 |-> w1]]]>>,
              <<"*">>, TRUE, distro, AggInventory)

InitTags == InitBucket \/ InitOverlay \/ InitMerge

SpecTags == InitTags /\ [][Next]_vars

-----------------------------------------------------------------------------
\* Specification SpecVer: one whitelist rule with a version constraint V,
\* <=V or >=V, where V and the installed version are dotted versions of up
\* to MaxVerLen characters (or one of a few versions with letters); the
\* package may be absent.
MaxVerLen == 4

VersionChars == {"0", "1", "."}

\* No dot at either end and no two dots in a row.
Dotted(v) ==
    /\ v[1] # "."
    /\ v[Len(v)] # "."
    /\ \A i \in 1..(Len(v) - 1) : ~(v[i] = "." /\ v[i + 1] = ".")

LetterVersions == { <<"a">>, <<"1", "a">>, <<"1", ".", "b">> }

Versions == {v \in Strings(VersionChars, 1, MaxVerLen) : Dotted(v)} \cup LetterVersions

Modifiers == { <<>>, <<"<", "=">>, <<">", "=">> }

\* One document with one whitelist rule for package p, tag "a".
VersionDoc(constraint) ==
    Doc("whitelist", "a1",
        [data |-> [h \in {"*"} |-> List(<<[key |-> "p",
                                           val |-> Dict([tag |-> TagA, version |-> constraint])]>>)]])

InitVer ==
    \E m \in Modifiers, v \in Versions, inst \in Versions \cup {<<>>} :
        Start(<<VersionDoc(m \o v)>>, <<"*">>, TRUE, "H",
              [n \in Names |-> IF n = "p" THEN inst ELSE <<>>])

SpecVer == InitVer /\ [][Next]_vars

-----------------------------------------------------------------------------
\* Specification SpecMod: one whitelist rule whose version constraint is any
\* string of up to MaxConLen characters among < > = ~ 1.
MaxConLen == 3

ConstraintChars == {"<", ">", "=", "~", "1"}

InitMod ==
    \E constraint \in Strings(ConstraintChars, 0, MaxConLen),
       inst \in {<<>>, <<"1">>, <<"1", "1">>}, verb \in BOOLEAN :
        Start(<<VersionDoc(constraint)>>, <<"*">>, verb, "H",
              [n \in Names |-> IF n = "p" THEN inst ELSE <<>>])

SpecMod == InitMod /\ [][Next]_vars

-----------------------------------------------------------------------------
(* Vocabulary of the properties.                                            *)

Range(seq) == {seq[i] : i \in DOMAIN seq}

\* _get_tags has returned: __tags__ is the complete tag table.
Resolved == pc \in {"audit", "done", "aborted"}

\* The positions <<tag, index>> of the resolved rules.
Positions == UNION {{<<t, i>> : i \in DOMAIN __tags__[t]} : t \in DOMAIN __tags__}

RuleAt(pos) == __tags__[pos[1]][pos[2]]

\* The rule's tag matches the tag filter.
UnderMatchingTag(pos) == fnmatch(pos[1], tags)

\* The evaluation loop has gone through the rule at pos.
Evaluated(pos) ==
    /\ Resolved
    /\ UnderMatchingTag(pos)
    /\ pos[1] \notin todo
    /\ cur = <<pos[1]>> => pos[2] <= ri

\* The evaluation of the rule at pos raised an exception, which ended audit().
RaisedAt(pos) == pc = "aborted" /\ cur = <<pos[1]>> /\ ri = pos[2]

\* The buckets filled by the evaluation loop, before any aggregation.
RawBuckets == IF pc = "done" THEN raw ELSE ret

\* A bucket entry without the `error` field the evaluation may have added.
Strip(entry) == [k \in DOMAIN entry \ {"error"} |-> entry[k]]

\* The rule is classified into the named bucket.
ClassifiedAs(rule, bucket) == \E e \in Range(RawBuckets[bucket]) : Strip(e) = rule

HasControl(rule) == "control" \in DOMAIN rule

HasVersion(rule) == "version" \in DOMAIN rule

Absent(rule) == installed[rule["name"]] = <<>>

Queried(pos) == \E n \in Names : <<pos[1], pos[2], n>> \in queries

-----------------------------------------------------------------------------
\* C1: every rule under a matching tag that carries a `control` field (from
\* the item or from the audit) is classified Controlled, never Success or
\* Failure, whatever the package query would answer and whatever `version`
\* says, and the package query is not called for it.
C1_ControlShortCircuits ==
    Resolved =>
        /\ \A pos \in Positions :
              (Evaluated(pos) /\ HasControl(RuleAt(pos))) =>
                  /\ RuleAt(pos) \in Range(RawBuckets["Controlled"])
                  /\ ~ClassifiedAs(RuleAt(pos), "Success")
                  /\ ~ClassifiedAs(RuleAt(pos), "Failure")
                  /\ ~Queried(pos)
        /\ \A b \in {"Success", "Failure"} :
              \A e \in Range(RawBuckets[b]) : ~HasControl(e)
        /\ Len(RawBuckets["Controlled"]) =
              Cardinality({pos \in Positions : Evaluated(pos) /\ HasControl(RuleAt(pos))})

\* A finished run that classified as Controlled a rule with a per-item control
\* whose package is installed and a rule with an audit-level control and a
\* version constraint whose package is absent.
C1_Witness ==
    /\ pc = "done"
    /\ \E e \in Range(raw["Controlled"]) : e["control"] = "c" /\ ~Absent(e)
    /\ \E e \in Range(raw["Controlled"]) : e["control"] = "k" /\ HasVersion(e) /\ Absent(e)

\* C2: a blacklist rule without control is Success iff the package is absent
\* and Failure otherwise; a whitelist rule without control and without
\* version is Success iff the package is present and Failure otherwise.
C2_PresenceDecides ==
    Resolved =>
        \A pos \in Positions :
            (Evaluated(pos) /\ ~HasControl(RuleAt(pos))) =>
                LET rule == RuleAt(pos)
                IN  /\ rule["type"] = "blacklist" =>
                          /\ ClassifiedAs(rule, "Success") <=> Absent(rule)
                          /\ ClassifiedAs(rule, "Failure") <=> ~Absent(rule)
                    /\ (rule["type"] = "whitelist" /\ ~HasVersion(rule)) =>
                          /\ ClassifiedAs(rule, "Success") <=> ~Absent(rule)
                          /\ ClassifiedAs(rule, "Failure") <=> Absent(rule)

\* A finished run with a blacklist rule in Failure (package installed) and a
\* whitelist rule without version in Failure (package absent).
C2_Witness ==
    /\ pc = "done"
    /\ \E e \in Range(raw["Failure"]) : e["type"] = "blacklist" /\ ~Absent(e)
    /\ \E e \in Range(raw["Failure"]) :
          e["type"] = "whitelist" /\ ~HasVersion(e) /\ Absent(e)

\* C9: the returned report has the keys Success and Failure, and has the key
\* Controlled exactly when a rule under a matching tag carries a control;
\* Controlled is never an empty sequence.
C9_ReportKeys ==
    pc = "done" =>
        /\ {"Success", "Failure"} \subseteq DOMAIN ret
        /\ DOMAIN ret \subseteq {"Success", "Failure", "Controlled"}
        /\ "Controlled" \in DOMAIN ret <=>
              \E pos \in Positions : UnderMatchingTag(pos) /\ HasControl(RuleAt(pos))
        /\ "Controlled" \in DOMAIN ret => ret["Controlled"] # <<>>

\* A returned report without the key Controlled although a rule carries a
\* control: the rule's tag does not match the filter.
C9_Witness ==
    /\ pc = "done"
    /\ "Controlled" \notin DOMAIN ret
    /\ \E pos \in Positions : HasControl(RuleAt(pos))
    /\ ret["Success"] # <<>>

\* The rules under matching tags are exactly the entries of the three
\* buckets, each once: every such rule is in exactly one bucket, the buckets
\* hold nothing else, and no rule under a non-matching tag is queried.
ExactlyClassified ==
    /\ \A pos \in Positions :
          UnderMatchingTag(pos) =>
              Cardinality({b \in DOMAIN EmptyRet : ClassifiedAs(RuleAt(pos), b)}) = 1
    /\ \A b \in DOMAIN EmptyRet :
          \A e \in Range(RawBuckets[b]) :
              \E pos \in Positions : UnderMatchingTag(pos) /\ RuleAt(pos) = Strip(e)
    /\ Len(RawBuckets["Success"]) + Len(RawBuckets["Failure"]) + Len(RawBuckets["Controlled"])
          = Cardinality({pos \in Positions : UnderMatchingTag(pos)})
    /\ \A pos \in Positions : Queried(pos) => UnderMatchingTag(pos)

\* C10 as stated: a verbose run ends with a report whose three buckets hold
\* exactly the rules under matching tags, each once.
C10_AllClassified ==
    (verbose /\ pc \in {"done", "aborted"}) =>
        /\ pc = "done"
        /\ ret = raw
        /\ ExactlyClassified

\* What holds of C10: the verbose runs that do return a report.
C10_OnReturn ==
    (verbose /\ pc = "done") =>
        /\ Pop(ret, "Controlled") = Pop(raw, "Controlled")
        /\ "Controlled" \in DOMAIN ret => ret["Controlled"] = raw["Controlled"]
        /\ ExactlyClassified

-----------------------------------------------------------------------------
(* Version constraints, as the properties describe them.                    *)

\* The constraint has an `=`, and i is the place of the first one.
FirstEq(c, i) == i \in DOMAIN c /\ c[i] = "=" /\ \A j \in 1..(i - 1) : c[j] # "="

HasEq(c) == \E i \in DOMAIN c : c[i] = "="

\* The text before the first `=` and the text after it.
PrefixOf(c) == LET i == CHOOSE i \in DOMAIN c : FirstEq(c, i) IN SubSeq(c, 1, i - 1)
RestOf(c) == LET i == CHOOSE i \in DOMAIN c : FirstEq(c, i) IN SubSeq(c, i + 1, Len(c))

\* A whitelist rule without control and with a version constraint.
Constrained(rule) == rule["type"] = "whitelist" /\ ~HasControl(rule) /\ HasVersion(rule)

\* The rule is reported as a Failure whose error names the modifier.
FailedWithError(rule, modifier) ==
    \E e \in Range(RawBuckets["Failure"]) :
        /\ Strip(e) = rule
        /\ "error" \in DOMAIN e
        /\ e["error"] = <<"Invalid modifier ">> \o modifier

\* C3 as stated: a whitelist rule without control whose package is absent is
\* classified Failure and never Success, with or without a version
\* constraint and whatever its form.
C3_AbsentFails ==
    Resolved =>
        \A pos \in Positions :
            LET rule == RuleAt(pos)
            IN  (Evaluated(pos) /\ rule["type"] = "whitelist" /\ ~HasControl(rule)
                   /\ Absent(rule)) =>
                    /\ ClassifiedAs(rule, "Failure")
                    /\ ~ClassifiedAs(rule, "Success")

\* C4 as stated: a constraint with an `=` whose prefix is anything but < or >,
\* the empty prefix included, gives a Failure with an error naming the
\* prefix, never Success, and does not abort the run.
C4_AnyOtherPrefixIsInvalid ==
    Resolved =>
        \A pos \in Positions :
            LET rule == RuleAt(pos)
            IN  (Evaluated(pos) /\ Constrained(rule) /\ HasEq(rule["version"])
                   /\ PrefixOf(rule["version"]) \notin {<<"<">>, <<">">>}) =>
                    /\ FailedWithError(rule, PrefixOf(rule["version"]))
                    /\ ~ClassifiedAs(rule, "Success")
                    /\ ~RaisedAt(pos)

\* C4 amended: the same for a prefix that is not empty and is followed, after
\* the first `=`, by at least one character; the package is not queried.
C4_InvalidModifier ==
    Resolved =>
        \A pos \in Positions :
            LET rule == RuleAt(pos)
            IN  (Evaluated(pos) /\ Constrained(rule) /\ HasEq(rule["version"])
                   /\ PrefixOf(rule["version"]) \notin {<<>>, <<"<">>, <<">">>}
                   /\ RestOf(rule["version"]) # <<>>) =>
                    /\ FailedWithError(rule, PrefixOf(rule["version"]))
                    /\ ~ClassifiedAs(rule, "Success")
                    /\ Len(RawBuckets["Failure"]) = 1
                    /\ ~RaisedAt(pos)
                    /\ ~Queried(pos)

\* C4 amended, the other cases: with an empty prefix, or with nothing after
\* the first `=`, the constraint is an exact match and carries no error.
C4_ExactMatchForms ==
    Resolved =>
        \A pos \in Positions :
            LET rule == RuleAt(pos)
                c == rule["version"]
                required == IF RestOf(c) = <<>> THEN PrefixOf(c) ELSE RestOf(c)
            IN  (Evaluated(pos) /\ Constrained(rule) /\ HasEq(c)
                   /\ (PrefixOf(c) = <<>> \/ RestOf(c) = <<>>)) =>
                    /\ (rule \in Range(RawBuckets["Success"]))
                          <=> installed[rule["name"]] = required
                    /\ (rule \in Range(RawBuckets["Failure"]))
                          <=> installed[rule["name"]] # required

\* A finished run in which the constraint ~=1 of an installed package gave a
\* Failure with the error naming "~".
C4_Witness ==
    /\ pc = "done"
    /\ \E pos \in Positions :
          /\ Evaluated(pos)
          /\ Constrained(RuleAt(pos))
          /\ RuleAt(pos)["version"] = <<"~", "=", "1">>
          /\ installed[RuleAt(pos)["name"]] = <<"1">>
          /\ FailedWithError(RuleAt(pos), <<"~">>)

-----------------------------------------------------------------------------
(* The loose ordering of versions, as the properties describe it.          *)

ComponentEq(x, y) ==
    \/ x.int /\ y.int /\ x.n = y.n
    \/ ~x.int /\ ~y.int /\ x.s = y.s

\* A string is smaller than another if it is a proper prefix of it or has
\* the smaller character at the first place where they differ.
StringLess(a, b) ==
    \E k \in DOMAIN b :
        /\ k - 1 <= Len(a)
        /\ \A j \in 1..(k - 1) : a[j] = b[j]
        /\ k > Len(a) \/ Ord(a[k]) < Ord(b[k])

\* Numbers compare numerically, strings lexically, a number before a string.
ComponentLess(x, y) ==
    IF x.int /\ y.int THEN x.n < y.n
    ELSE IF x.int THEN TRUE
    ELSE IF y.int THEN FALSE
    ELSE StringLess(x.s, y.s)

SameComponents(a, b) ==
    Len(a) = Len(b) /\ \A j \in DOMAIN a : ComponentEq(a[j], b[j])

\* Left to right, the first differing component decides; a sequence that is a
\* proper prefix of the other is the smaller one.
PrefixLess(a, b) ==
    \E k \in DOMAIN b :
        /\ k - 1 <= Len(a)
        /\ \A j \in 1..(k - 1) : ComponentEq(a[j], b[j])
        /\ k > Len(a) \/ ComponentLess(a[k], b[k])

LooselyAtLeast(i, v) ==
    LET a == Components(i)
        b == Components(v)
    IN  SameComponents(a, b) \/ PrefixLess(b, a)

LooselyAtMost(i, v) ==
    LET a == Components(i)
        b == Components(v)
    IN  SameComponents(a, b) \/ PrefixLess(a, b)

\* The ordering of the statement: the shorter sequence is first extended
\* with zero components to the length of the longer one.
ZeroPadded(a, n) == [k \in 1..n |-> IF k <= Len(a) THEN a[k] ELSE [int |-> TRUE, n |-> 0]]

PaddedAtLeast(i, v) ==
    LET n == IF Len(Components(i)) > Len(Components(v))
             THEN Len(Components(i)) ELSE Len(Components(v))
        a == ZeroPadded(Components(i), n)
        b == ZeroPadded(Components(v), n)
    IN  SameComponents(a, b) \/ PrefixLess(b, a)

PaddedAtMost(i, v) ==
    LET n == IF Len(Components(i)) > Len(Components(v))
             THEN Len(Components(i)) ELSE Len(Components(v))
        a == ZeroPadded(Components(i), n)
        b == ZeroPadded(Components(v), n)
    IN  SameComponents(a, b) \/ PrefixLess(a, b)

\* The rule's constraint is >=V or <=V (m is ">" or "<") with V not empty,
\* and the package is installed.
RangeConstraint(rule, m) ==
    /\ Constrained(rule)
    /\ Len(rule["version"]) >= 3
    /\ rule["version"][1] = m
    /\ rule["version"][2] = "="
    /\ ~Absent(rule)

VersionOf(rule) == SubSeq(rule["version"], 3, Len(rule["version"]))

\* The rule is Success if `holds`, and Failure otherwise.
SuccessIff(rule, holds) ==
    /\ ClassifiedAs(rule, "Success") <=> holds
    /\ ClassifiedAs(rule, "Failure") <=> ~holds

\* C5 as stated: >=V (<=V) is Success iff the installed version is at least
\* (at most) V in the ordering that pads the shorter version with zeros.
C5_ZeroPaddedOrdering ==
    Resolved =>
        \A pos \in Positions :
            LET rule == RuleAt(pos)
                inst == installed[rule["name"]]
            IN  Evaluated(pos) =>
                    /\ RangeConstraint(rule, ">") =>
                          SuccessIff(rule, PaddedAtLeast(inst, VersionOf(rule)))
                    /\ RangeConstraint(rule, "<") =>
                          SuccessIff(rule, PaddedAtMost(inst, VersionOf(rule)))

\* C5 amended: the same in the ordering in which a version whose components
\* are a proper prefix of the other's is the smaller one.
C5_PrefixOrdering ==
    Resolved =>
        \A pos \in Positions :
            LET rule == RuleAt(pos)
                inst == installed[rule["name"]]
            IN  Evaluated(pos) =>
                    /\ RangeConstraint(rule, ">") =>
                          SuccessIff(rule, LooselyAtLeast(inst, VersionOf(rule)))
                    /\ RangeConstraint(rule, "<") =>
                          SuccessIff(rule, LooselyAtMost(inst, VersionOf(rule)))

\* A finished run in which version 1 is installed and >=1.0 is required: the
\* rule is a Failure.
C5_Witness ==
    /\ pc = "done"
    /\ \E pos \in Positions :
          /\ Evaluated(pos)
          /\ RangeConstraint(RuleAt(pos), ">")
          /\ VersionOf(RuleAt(pos)) = <<"1", ".", "0">>
          /\ installed[RuleAt(pos)["name"]] = <<"1">>
          /\ ClassifiedAs(RuleAt(pos), "Failure")

-----------------------------------------------------------------------------
(* The policy as passed in, as the properties about _get_tags describe it. *)

\* The audits of the documents: <<document index, category, audit id>>.
Audits ==
    UNION { UNION { {<<d, c, id>> : id \in DOMAIN data_list[d]["pkg"][c]} :
                    c \in DOMAIN data_list[d]["pkg"] } :
            d \in DOMAIN data_list }

AuditSpecOf(a) == data_list[a[1]]["pkg"][a[2]][a[3]]

\* The one bucket of the audit that applies to the host: the host's own if
\* there is one, else the wildcard's if there is one, else nothing.
BucketFor(a) ==
    LET buckets == IF "data" \in DOMAIN AuditSpecOf(a) THEN AuditSpecOf(a)["data"] ELSE <<>>
    IN  IF osfinger \in DOMAIN buckets THEN <<buckets[osfinger]>>
        ELSE IF "*" \in DOMAIN buckets THEN <<buckets["*"]>>
        ELSE <<>>

\* The items {name: tagspec} of a bucket, as pairs <<name, tagspec>>.
ItemsOf(bucket) ==
    IF bucket.kind = "dict"
    THEN {<<1, n, bucket.dict[n]>> : n \in DOMAIN bucket.dict}
    ELSE {<<i, bucket.list[i].key, bucket.list[i].val>> : i \in DOMAIN bucket.list}

TagOf(tagspec) == IF tagspec.kind = "dict" THEN tagspec.dict["tag"] ELSE tagspec.str

\* How many items named n with tag t the applicable bucket of audit a holds.
Contribution(a, n, t) ==
    IF BucketFor(a) = <<>> THEN 0
    ELSE Cardinality({it \in ItemsOf(BucketFor(a)[1]) : it[2] = n /\ TagOf(it[3]) = t})

RECURSIVE SumOver(_, _, _)
SumOver(S, n, t) ==
    IF S = {} THEN 0
    ELSE LET a == CHOOSE x \in S : TRUE
         IN  Contribution(a, n, t) + SumOver(S \ {a}, n, t)

\* How many resolved rules of category c, named n, are stored under tag t.
ResolvedCount(c, n, t) ==
    IF t \in DOMAIN __tags__
    THEN Cardinality({i \in DOMAIN __tags__[t] :
                        __tags__[t][i]["type"] = c /\ __tags__[t][i]["name"] = n})
    ELSE 0

\* C6: the rules resolved for an audit are those of exactly one bucket: the
\* host's when the audit has one, else the wildcard's when it has one, else
\* none; no error is raised.
C6_OneBucket ==
    Resolved =>
        /\ \A c \in Categories, n \in Names, t \in {TagA, TagB} :
              ResolvedCount(c, n, t) = SumOver({a \in Audits : a[2] = c}, n, t)
        /\ \A pos \in Positions :
              /\ pos[1] \in {TagA, TagB}
              /\ RuleAt(pos)["name"] \in Names
              /\ RuleAt(pos)["type"] \in Categories
        /\ pc # "aborted"

\* An audit with different, non-empty buckets for the host and for "*" has
\* been resolved on that host, to as many rules as the host's bucket holds.
C6_Witness ==
    /\ pc = "audit"
    /\ Len(data_list) = 1
    /\ \E a \in Audits :
          /\ "data" \in DOMAIN AuditSpecOf(a)
          /\ {osfinger, "*"} \subseteq DOMAIN AuditSpecOf(a)["data"]
          /\ osfinger # "*"
          /\ AuditSpecOf(a)["data"][osfinger].kind = "list"
          /\ AuditSpecOf(a)["data"]["*"].kind = "list"
          /\ Len(AuditSpecOf(a)["data"][osfinger].list) = 1
          /\ Len(AuditSpecOf(a)["data"]["*"].list) = 2
          /\ Cardinality(Positions) = 1

\* The per-item fields of a tagspec: its mapping without `tag`, or nothing.
ItemFieldsOf(tagspec) ==
    IF tagspec.kind = "dict"
    THEN [k \in DOMAIN tagspec.dict \ {"tag"} |-> tagspec.dict[k]]
    ELSE <<>>

\* The audit-level metadata: the audit spec without `data`.
MetadataOf(a) == [k \in DOMAIN AuditSpecOf(a) \ {"data"} |-> AuditSpecOf(a)[k]]

\* The value of key k of the four fields every rule starts from.
BaseField(k, a, n, tagspec) ==
    CASE k = "name" -> n
      [] k = "tag" -> TagOf(tagspec)
      [] k = "module" -> "pkg"
      [] k = "type" -> a[2]

BaseKeys == {"name", "tag", "module", "type"}

\* rule is the overlay of the base fields, then `second`, then `last`.
Overlay(rule, a, n, tagspec, second, last) ==
    /\ DOMAIN rule = BaseKeys \cup DOMAIN second \cup DOMAIN last
    /\ \A k \in DOMAIN rule :
          rule[k] = IF k \in DOMAIN last THEN last[k]
                    ELSE IF k \in DOMAIN second THEN second[k]
                    ELSE BaseField(k, a, n, tagspec)

\* rule is the overlay of `first`, then the base fields, then `last`.
OverlayOnto(rule, a, n, tagspec, first, last) ==
    /\ DOMAIN rule = BaseKeys \cup DOMAIN first \cup DOMAIN last
    /\ \A k \in DOMAIN rule :
          rule[k] = IF k \in DOMAIN last THEN last[k]
                    ELSE IF k \in BaseKeys THEN BaseField(k, a, n, tagspec)
                    ELSE first[k]

\* The items that the applicable buckets contribute: <<audit, name, tagspec>>.
Contributed ==
    UNION { {<<a, it[2], it[3]>> : it \in ItemsOf(BucketFor(a)[1])} :
            a \in {x \in Audits : BucketFor(x) # <<>>} }

\* C7 as stated: a resolved rule is the audit-level metadata, overlaid with
\* name, tag, module and type, overlaid with the per-item fields: the
\* per-item value wins and the metadata never overrides the four fields.
C7_ItemFieldsWin ==
    Resolved =>
        /\ \A pos \in Positions :
              \E x \in Contributed :
                  /\ TagOf(x[3]) = pos[1]
                  /\ OverlayOnto(RuleAt(pos), x[1], x[2], x[3],
                                 MetadataOf(x[1]), ItemFieldsOf(x[3]))
        /\ \A x \in Contributed :
              \E pos \in Positions :
                  /\ TagOf(x[3]) = pos[1]
                  /\ OverlayOnto(RuleAt(pos), x[1], x[2], x[3],
                                 MetadataOf(x[1]), ItemFieldsOf(x[3]))

\* C7 amended: a resolved rule is name, tag, module and type, overlaid with
\* the per-item fields, overlaid with the audit-level metadata: on a key
\* conflict the audit-level value wins.
C7_MetadataWins ==
    Resolved =>
        /\ \A pos \in Positions :
              \E x \in Contributed :
                  /\ TagOf(x[3]) = pos[1]
                  /\ Overlay(RuleAt(pos), x[1], x[2], x[3],
                             ItemFieldsOf(x[3]), MetadataOf(x[1]))
        /\ \A x \in Contributed :
              \E pos \in Positions :
                  /\ TagOf(x[3]) = pos[1]
                  /\ Overlay(RuleAt(pos), x[1], x[2], x[3],
                             ItemFieldsOf(x[3]), MetadataOf(x[1]))

\* A rule has been resolved from an item with its own version, control and
\* description under an audit that sets the same three keys and `module`:
\* the rule carries the audit's values.
C7_Witness ==
    /\ pc = "audit"
    /\ \E x \in Contributed :
          /\ {"version", "control", "description"} \subseteq DOMAIN ItemFieldsOf(x[3])
          /\ {"version", "control", "description", "module"} \subseteq DOMAIN MetadataOf(x[1])
          /\ \E pos \in Positions :
                /\ RuleAt(pos)["version"] = MetadataOf(x[1])["version"]
                /\ RuleAt(pos)["version"] # ItemFieldsOf(x[3])["version"]
                /\ RuleAt(pos)["control"] = "k"
                /\ RuleAt(pos)["description"] = "D"
                /\ RuleAt(pos)["module"] = "m"

-----------------------------------------------------------------------------
(* Aggregation, as the properties describe it.                              *)

\* What identifies a rule in a Success or Failure bucket, and in Controlled.
PairOf(rule) == <<rule["tag"], IF "description" \in DOMAIN rule THEN rule["description"] ELSE NoneVal>>
TripleOf(rule) ==
    <<rule["tag"], IF "description" \in DOMAIN rule THEN rule["description"] ELSE NoneVal,
      rule["control"]>>

\* The same for the entries {tag: description} and {tag: {description, control}}.
EntryPair(e) == <<e.key, e.val>>
EntryTriple(e) == <<e.key, e.val.description, e.val.control>>

\* The place of the first rule of the bucket identified by x.
FirstPlace(bucket, Id(_), x) ==
    CHOOSE i \in DOMAIN bucket : Id(bucket[i]) = x /\ \A j \in 1..(i - 1) : Id(bucket[j]) # x

\* out holds one entry for each distinct identity of bucket, in the order of
\* the first occurrences.
FirstOccurrences(out, EntryId(_), bucket, Id(_)) ==
    /\ \A i, j \in DOMAIN out : i # j => EntryId(out[i]) # EntryId(out[j])
    /\ {EntryId(out[i]) : i \in DOMAIN out} = {Id(bucket[i]) : i \in DOMAIN bucket}
    /\ \A i, j \in DOMAIN out :
          i < j => FirstPlace(bucket, Id, EntryId(out[i])) < FirstPlace(bucket, Id, EntryId(out[j]))

\* C8: without verbose, Success and Failure each hold one {tag: description}
\* per distinct pair of the raw bucket, first occurrences in raw order, each
\* bucket on its own; Controlled likewise by (tag, description, control).
C8_FirstOccurrences ==
    (pc = "done" /\ ~verbose) =>
        /\ FirstOccurrences(ret["Success"], EntryPair, raw["Success"], PairOf)
        /\ FirstOccurrences(ret["Failure"], EntryPair, raw["Failure"], PairOf)
        /\ IF "Controlled" \in DOMAIN ret
           THEN FirstOccurrences(ret["Controlled"], EntryTriple, raw["Controlled"], TripleOf)
           ELSE raw["Controlled"] = <<>>

\* A non-verbose report whose Success bucket has two entries for three raw
\* rules: the first and the third rule have the same tag and description, the
\* second has another description.
C8_Witness ==
    /\ pc = "done"
    /\ ~verbose
    /\ Len(raw["Success"]) = 3
    /\ Len(ret["Success"]) = 2
    /\ PairOf(raw["Success"][1]) = PairOf(raw["Success"][3])
    /\ PairOf(raw["Success"][1]) # PairOf(raw["Success"][2])
    /\ raw["Success"][1]["tag"] = raw["Success"][2]["tag"]

====
